---- MODULE Spec2Model ----
(***************************************************************************)
(* RenderHandle (fidget/src/render/mod.rs): lazily built tapes, the cached *)
(* chain of simplified child handles, and the recycling of shape and tape  *)
(* storage into per-thread pools.                                          *)
(*                                                                         *)
(* A handle chain is a sequence of nodes: chain[h][1] is the handle owned  *)
(* by holder h, chain[h][k+1] is the Box<child> stored in the `next` field *)
(* of chain[h][k], and chain[h][k].tr is the trace stored next to it.      *)
(* Storages are numbered; a tape is identified by the storage it holds and *)
(* arc[s] is the strong count of the Arc that owns storage s.              *)
(***************************************************************************)
EXTENDS Integers, Sequences, FiniteSets, TLC

\* ---------------------------------------------------------------- bounds
NumHolders == 2
RootSize == 3
MaxStorage == 4
MaxOps == 6
MaxLen == 3
MaxTile == 4
MaxCoord == 5
NumRoot == 2
MaxThreads == 2
MaxScripts == 2
MaxSettings == 2

Holders == 1..NumHolders
StorageIds == 1..MaxStorage

\* Option::None for a tape slot, and for the `next` field's trace
NoTape == 0
NoTrace == -1

\* The traces an interval evaluation can hand to simplify
Traces == {0, 1, 2, 3}

VARIABLES chain, sp, tp, arc, pend, nextId, last, ops

\* TileSizes: the slice handed to TileSizes::new, what new returned, and the
\* last call made on the TileSizes it built
VARIABLES sizes, tiles, tcall

\* The renderer: the scene, the render mode and the thread count of a run,
\* per worker the number of root tiles it has finished and its output, the
\* workers the orchestrator has joined and those whose output it has merged,
\* the final image, the number of writes to each of its pixels, and the
\* last step taken
VARIABLES scene, mode, threads, finished, out, joined, merged, image, writes,
          rstep

\* The viewer's render thread: the channels rx (script results) and cfg
\* (render settings), the thread's locals config, script_ctx and changed,
\* its position in the loop, the number of messages sent to it so far, and
\* the record of what it has received and sent
VARIABLES rxq, cfgq, config, script_ctx, changed, pc, nscript, ncfg, vlog

viewerVars == <<rxq, cfgq, config, script_ctx, changed, pc, nscript, ncfg,
                vlog>>
renderVars == <<scene, mode, threads, finished, out, joined, merged, image,
                writes, rstep>>
handleVars == <<chain, sp, tp, arc, pend, nextId, last, ops>>
tileVars == <<sizes, tiles, tcall>>

vars == <<chain, sp, tp, arc, pend, nextId, last, ops, sizes, tiles, tcall,
          scene, mode, threads, finished, out, joined, merged, image, writes,
          rstep, rxq, cfgq, config, script_ctx, changed, pc, nscript, ncfg,
          vlog>>

\* ------------------------------------------------- Shape (external type)
\* Shape::size() after Shape::simplify(trace): trace 0 decides nothing,
\* traces 1 and 2 remove that many operations (never the last one), trace 3
\* yields a longer equivalent expression.
SimplifiedSize(n, t) ==
    IF t = 0 THEN n
    ELSE IF t = 3 THEN n + 1
    ELSE IF n - t >= 1 THEN n - t ELSE 1

\* Shape::simplify(trace, storage, workspace): the result owns `storage`
ShapeSimplify(shape, t, s) ==
    [path |-> Append(shape.path, t),
     size |-> SimplifiedSize(shape.size, t),
     st   |-> s]

ShapeSize(shape) == shape.size

RootShape(s) == [path |-> <<>>, size |-> RootSize, st |-> s]

\* ------------------------------------------------------------- the pools
\* Mutation: the oldest storage of the pool is taken
PopOldestOrDefault(pool, next) ==
    IF Len(pool) > 0
    THEN [s |-> pool[1], pool |-> SubSeq(pool, 2, Len(pool)), next |-> next]
    ELSE [s |-> next, pool |-> pool, next |-> next + 1]

\* Vec::pop().unwrap_or_default(): the last element, else a fresh storage
PopOrDefault(pool, next) ==
    IF Len(pool) > 0
    THEN [s |-> pool[Len(pool)], pool |-> SubSeq(pool, 1, Len(pool) - 1),
          next |-> next]
    ELSE [s |-> next, pool |-> pool, next |-> next + 1]

CanPop(pool) == Len(pool) > 0 \/ nextId <= MaxStorage

\* ---------------------------------------------------------- RenderHandle
NewHandle(shape) ==
    [shape |-> shape, i_tape |-> NoTape, f_tape |-> NoTape,
     g_tape |-> NoTape, tr |-> NoTrace]

\* Mutation: a field-wise clone, which copies the child chain too
CloneHandleDeep(nodes) == nodes

\* impl Clone: nodes[1] is the handle being cloned, with its chain
CloneHandle(nodes) ==
    <<[shape  |-> nodes[1].shape,
       i_tape |-> nodes[1].i_tape,
       f_tape |-> nodes[1].f_tape,
       g_tape |-> nodes[1].g_tape,
       tr     |-> NoTrace]>>


\* One entry of last.log: a storage leaving ("pop"), being allocated fresh
\* ("alloc") or entering ("push") the shape or the tape pool, on behalf of
\* the handle at depth d of the chain
Ev(ev, pool, s, d) == [ev |-> ev, pool |-> pool, s |-> s, d |-> d]

PopEv(pool, name, s, d) ==
    IF Len(pool) > 0 THEN Ev("pop", name, s, d) ELSE Ev("alloc", name, s, d)

\* Mutation: the Arc is unwrapped whatever its strong count
TryUnwrapAlways(a, t) == TRUE

\* Arc::try_unwrap succeeds only on the last strong reference
TryUnwrap(a, t) == a[t] = 1

\* One `if let Some(tape) = self.x_tape.take()` block of recycle; st holds
\* the two pools, the strong counts, the failed-unwrap Arcs not yet dropped
\* and the log.
RecycleTape(st, t, d) ==
    IF t = NoTape THEN st
    ELSE IF TryUnwrap(st.arc, t)
    THEN [st EXCEPT !.tp = Append(@, t),
                    !.arc[t] = 0,
                    !.log = Append(@, Ev("push", "tape", t, d))]
    ELSE [st EXCEPT !.pend[t] = @ + 1]

\* Shape::recycle(): Some(storage) when this is the only owner of the shape
ShapeRecycle(shape, a) ==
    IF a[shape.st] = 1 THEN <<shape.st>> ELSE <<>>

\* shape_storage.extend(self.shape.recycle())
RecycleShape(st, shape, d) ==
    LET r == ShapeRecycle(shape, st.arc)
    IN  [st EXCEPT !.sp = @ \o r,
                   !.arc[shape.st] = @ - 1,
                   !.log = @ \o [j \in 1..Len(r) |->
                                    Ev("push", "shape", r[j], d)]]

\* Mutation: the g_tape block is missing
RecycleTapesMissingG(st, node, d) ==
    RecycleTape(RecycleTape(st, node.i_tape, d), node.f_tape, d)

\* The three tape blocks of recycle, in source order: i_tape, g_tape, f_tape
RecycleTapes(st, node, d) ==
    RecycleTape(RecycleTape(RecycleTape(st, node.i_tape, d),
                            node.g_tape, d),
                node.f_tape, d)

\* Mutation: the handle's own storages are returned before the child's
RECURSIVE HandleRecycleParentFirst(_, _, _)
HandleRecycleParentFirst(nodes, st, d) ==
    LET s1 == RecycleShape(RecycleTapes(st, nodes[1], d), nodes[1].shape, d)
    IN  IF nodes[1].tr # NoTrace
        THEN HandleRecycleParentFirst(Tail(nodes), s1, d + 1)
        ELSE s1

\* RenderHandle::recycle on the handle nodes[1], which sits at depth d
RECURSIVE HandleRecycle(_, _, _)
HandleRecycle(nodes, st, d) ==
    LET s1 == IF nodes[1].tr # NoTrace
              THEN HandleRecycle(Tail(nodes), st, d + 1)
              ELSE st
        s2 == RecycleTapes(s1, nodes[1], d)
    IN  RecycleShape(s2, nodes[1].shape, d)

Pools(h) == [sp |-> sp[h], tp |-> tp[h], arc |-> arc, pend |-> pend,
             log |-> <<>>]

NoOp == [op |-> "init", h |-> 0, k |-> 0, tr |-> NoTrace, ret |-> 0,
         invoked |-> FALSE, log |-> <<>>, rep |-> "no"]

\* No TileSizes::new call yet, and no call on its result
NotBuilt == [tag |-> "None", val |-> <<>>, a |-> 0, b |-> 0]
NoCall == [op |-> "none", x |-> 0, y |-> 0, ret |-> 0]

\* No render is running
NoRender ==
    /\ scene = [kind |-> "const", c |-> 1, slack |-> 0]
    /\ mode = "bit" /\ threads = 1
    /\ finished = <<>> /\ out = <<>>
    /\ joined = {} /\ merged = {}
    /\ image = <<>> /\ writes = <<>>
    /\ rstep = [op |-> "none", w |-> 0]

\* The render thread has not been started
None == 0

NoViewer ==
    /\ rxq = <<>> /\ cfgq = <<>>
    /\ config = None /\ script_ctx = None /\ changed = FALSE
    /\ pc = "none" /\ nscript = 0 /\ ncfg = 0
    /\ vlog = <<>>

\* Every call counts against the length of the run
Tick ==
    /\ ops < MaxOps /\ ops' = ops + 1
    /\ UNCHANGED <<tileVars, renderVars, viewerVars>>

Init ==
    /\ chain = [h \in Holders |-> IF h = 1 THEN <<NewHandle(RootShape(1))>>
                                           ELSE <<>>]
    /\ sp = [h \in Holders |-> <<>>]
    /\ tp = [h \in Holders |-> <<>>]
    /\ arc = [s \in StorageIds |-> IF s = 1 THEN 1 ELSE 0]
    /\ pend = [s \in StorageIds |-> 0]
    /\ nextId = 2
    /\ last = NoOp
    /\ ops = 0
    /\ sizes = <<>> /\ tiles = NotBuilt /\ tcall = NoCall
    /\ NoRender
    /\ NoViewer

\* RenderHandle::new on a freshly built shape
New(h) ==
    /\ Tick
    /\ chain[h] = <<>>
    /\ nextId <= MaxStorage
    /\ chain' = [chain EXCEPT ![h] = <<NewHandle(RootShape(nextId))>>]
    /\ arc' = [arc EXCEPT ![nextId] = 1]
    /\ nextId' = nextId + 1
    /\ last' = [NoOp EXCEPT !.op = "new", !.h = h, !.k = 1, !.ret = 1]
    /\ UNCHANGED <<sp, tp, pend>>

\* Mutation: the tape is rebuilt on every call
InsertAlways(slot, pool, next, d) ==
    LET p == PopOrDefault(pool, next)
    IN  [tape |-> p.s, pool |-> p.pool, next |-> p.next,
         log |-> <<PopEv(pool, "tape", p.s, d)>>]

\* Option::get_or_insert_with(|| Arc::new(shape.x_tape(
\* storage.pop().unwrap_or_default()))): the cached tape, else a tape built
\* on a storage taken from the pool
GetOrInsertWith(slot, pool, next, d) ==
    IF slot # NoTape
    THEN [tape |-> slot, pool |-> pool, next |-> next, log |-> <<>>]
    ELSE LET p == PopOrDefault(pool, next)
         IN  [tape |-> p.s, pool |-> p.pool, next |-> p.next,
              log |-> <<PopEv(pool, "tape", p.s, d)>>]

\* RenderHandle::i_tape on the handle at depth k of holder h's chain
ITape(h, k) ==
    /\ Tick
    /\ k \in 1..Len(chain[h])
    /\ chain[h][k].i_tape # NoTape \/ CanPop(tp[h])
    /\ LET r == GetOrInsertWith(chain[h][k].i_tape, tp[h], nextId, k) IN
       /\ chain' = [chain EXCEPT ![h][k].i_tape = r.tape]
       /\ tp' = [tp EXCEPT ![h] = r.pool]
       /\ arc' = [arc EXCEPT ![r.tape] = IF r.log = <<>> THEN @ ELSE 1]
       /\ nextId' = r.next
       /\ last' = [NoOp EXCEPT !.op = "i_tape", !.h = h, !.k = k,
                               !.ret = r.tape, !.log = r.log]
    /\ UNCHANGED <<sp, pend>>

\* RenderHandle::f_tape
FTape(h, k) ==
    /\ Tick
    /\ k \in 1..Len(chain[h])
    /\ chain[h][k].f_tape # NoTape \/ CanPop(tp[h])
    /\ LET r == GetOrInsertWith(chain[h][k].f_tape, tp[h], nextId, k) IN
       /\ chain' = [chain EXCEPT ![h][k].f_tape = r.tape]
       /\ tp' = [tp EXCEPT ![h] = r.pool]
       /\ arc' = [arc EXCEPT ![r.tape] = IF r.log = <<>> THEN @ ELSE 1]
       /\ nextId' = r.next
       /\ last' = [NoOp EXCEPT !.op = "f_tape", !.h = h, !.k = k,
                               !.ret = r.tape, !.log = r.log]
    /\ UNCHANGED <<sp, pend>>

\* RenderHandle::g_tape
GTape(h, k) ==
    /\ Tick
    /\ k \in 1..Len(chain[h])
    /\ chain[h][k].g_tape # NoTape \/ CanPop(tp[h])
    /\ LET r == GetOrInsertWith(chain[h][k].g_tape, tp[h], nextId, k) IN
       /\ chain' = [chain EXCEPT ![h][k].g_tape = r.tape]
       /\ tp' = [tp EXCEPT ![h] = r.pool]
       /\ arc' = [arc EXCEPT ![r.tape] = IF r.log = <<>> THEN @ ELSE 1]
       /\ nextId' = r.next
       /\ last' = [NoOp EXCEPT !.op = "g_tape", !.h = h, !.k = k,
                               !.ret = r.tape, !.log = r.log]
    /\ UNCHANGED <<sp, pend>>

\* Mutation: the comparison of the cached trace is inverted
TraceMismatchInverted(node, t) == node.tr = t

\* `&neighbor.0 != trace`: the cached child cannot be reused
TraceMismatch(node, t) == node.tr # t

\* Mutation: the mismatching child is dropped instead of being recycled
FreeNextNoRecycle(nodes, k, t, st) ==
    IF nodes[k].tr # NoTrace /\ TraceMismatch(nodes[k], t)
    THEN [nodes |-> [SubSeq(nodes, 1, k) EXCEPT ![k].tr = NoTrace],
          st    |-> st,
          trace_storage |-> nodes[k].tr]
    ELSE [nodes |-> nodes, st |-> st, trace_storage |-> NoTrace]

\* "Free self.next if it doesn't match our new set of choices": nodes is the
\* chain from its root down, k the depth of self.  The result carries the
\* chain, the pools and trace_storage (the freed child's trace).
FreeNext(nodes, k, t, st) ==
    IF nodes[k].tr # NoTrace /\ TraceMismatch(nodes[k], t)
    THEN [nodes |-> [SubSeq(nodes, 1, k) EXCEPT ![k].tr = NoTrace],
          st    |-> HandleRecycle(SubSeq(nodes, k + 1, Len(nodes)), st, k + 1),
          trace_storage |-> nodes[k].tr]
    ELSE [nodes |-> nodes, st |-> st, trace_storage |-> NoTrace]

\* Trace::copy_from overwrites the receiver with the argument
CopyFrom(dst, src) == src

\* Mutation: the reused trace allocation is stored without copy_from
StoreTraceNoCopy(trace_storage, t) ==
    IF trace_storage # NoTrace THEN trace_storage ELSE t

\* The trace stored with a new child: the freed child's trace allocation
\* after copy_from(trace), else a clone of the trace
StoreTrace(trace_storage, t) ==
    IF trace_storage # NoTrace THEN CopyFrom(trace_storage, t) ELSE t

\* Mutation: a candidate of equal size is kept
RejectsOnlyLarger(next, shape) == ShapeSize(next) > ShapeSize(shape)

\* `next.size() >= self.shape.size()`: the candidate is not worth keeping
Rejects(next, shape) == ShapeSize(next) >= ShapeSize(shape)

\* Mutation: the rejected candidate is dropped, not recycled
KeepSelfNoRecycle(nodes, k, next, st) ==
    [nodes |-> nodes,
     st    |-> [st EXCEPT !.arc[next.st] = @ - 1],
     ret   |-> k]

\* The rejection branch: shape_storage.extend(next.recycle()); self
KeepSelf(nodes, k, next, st) ==
    LET r == ShapeRecycle(next, st.arc)
    IN  [nodes |-> nodes,
         st    |-> [st EXCEPT !.sp = @ \o r,
                              !.arc[next.st] = @ - 1,
                              !.log = @ \o [j \in 1..Len(r) |->
                                       Ev("push", "shape", r[j], k + 1)]],
         ret   |-> k]

\* Mutation: the new child is installed but self is returned
InstallReturnsSelf(nodes, k, next, tr, st) ==
    [nodes |-> Append([nodes EXCEPT ![k].tr = tr], NewHandle(next)),
     st    |-> st,
     ret   |-> k]

\* Mutation: the new child starts with the tapes of its parent
InstallInheritsTapes(nodes, k, next, tr, st) ==
    [nodes |-> Append([nodes EXCEPT ![k].tr = tr],
                      [nodes[k] EXCEPT !.shape = next, !.tr = NoTrace]),
     st    |-> st,
     ret   |-> k + 1]

\* The acceptance branch: self.next = Some((trace, Box::new(..)))
Install(nodes, k, next, tr, st) ==
    [nodes |-> Append([nodes EXCEPT ![k].tr = tr], NewHandle(next)),
     st    |-> st,
     ret   |-> k + 1]

\* The `if self.next.is_none()` block, after a storage for the candidate
\* has been popped (p)
BuildNext(f, k, t, p) ==
    LET next == ShapeSimplify(f.nodes[k].shape, t, p.s)
        st2  == [f.st EXCEPT !.sp = p.pool,
                             !.arc[p.s] = 1,
                             !.log = Append(@, PopEv(f.st.sp, "shape", p.s,
                                                     k + 1))]
    IN  IF Rejects(next, f.nodes[k].shape)
        THEN KeepSelf(f.nodes, k, next, st2)
        ELSE Install(f.nodes, k, next, StoreTrace(f.trace_storage, t), st2)

\* Whether this call repeats the call before it (same handle, same trace),
\* and what that call returned
Repeats(h, k, t) ==
    IF last.op = "simplify" /\ last.h = h /\ last.k = k /\ last.tr = t
    THEN (IF last.ret = k THEN "self" ELSE "child")
    ELSE "no"

\* RenderHandle::simplify on the handle at depth k of holder h's chain.
\* last.ret is the depth of the handle the returned reference points to.
Simplify(h, k, t) ==
    /\ Tick
    /\ k \in 1..Len(chain[h])
    /\ LET f == FreeNext(chain[h], k, t, Pools(h)) IN
       IF f.nodes[k].tr = NoTrace
       THEN /\ Len(f.st.sp) > 0 \/ nextId <= MaxStorage
            /\ LET p == PopOrDefault(f.st.sp, nextId)
                   b == BuildNext(f, k, t, p)
               IN  /\ chain' = [chain EXCEPT ![h] = b.nodes]
                   /\ sp' = [sp EXCEPT ![h] = b.st.sp]
                   /\ tp' = [tp EXCEPT ![h] = b.st.tp]
                   /\ arc' = b.st.arc
                   /\ pend' = b.st.pend
                   /\ nextId' = p.next
                   /\ last' = [op |-> "simplify", h |-> h, k |-> k,
                               tr |-> t, ret |-> b.ret, invoked |-> TRUE,
                               log |-> b.st.log, rep |-> Repeats(h, k, t)]
       ELSE /\ last' = [op |-> "simplify", h |-> h, k |-> k, tr |-> t,
                        ret |-> k + 1, invoked |-> FALSE, log |-> <<>>,
                        rep |-> Repeats(h, k, t)]
            /\ UNCHANGED <<chain, sp, tp, arc, pend, nextId>>

\* RenderHandle::recycle on the handle owned by holder h
Recycle(h) ==
    /\ Tick
    /\ chain[h] # <<>>
    /\ LET st == HandleRecycle(chain[h], Pools(h), 1) IN
       /\ chain' = [chain EXCEPT ![h] = <<>>]
       /\ sp' = [sp EXCEPT ![h] = st.sp]
       /\ tp' = [tp EXCEPT ![h] = st.tp]
       /\ arc' = st.arc
       /\ pend' = st.pend
       /\ last' = [NoOp EXCEPT !.op = "recycle", !.h = h, !.k = 1,
                               !.log = st.log]
    /\ UNCHANGED nextId

\* The storages a chain's nodes hold through an Arc
HeldBy(nodes) ==
    ({nodes[j].shape.st : j \in 1..Len(nodes)} \cup
     {nodes[j].i_tape : j \in 1..Len(nodes)} \cup
     {nodes[j].f_tape : j \in 1..Len(nodes)} \cup
     {nodes[j].g_tape : j \in 1..Len(nodes)}) \ {NoTape}

\* impl Clone for RenderHandle: holder h2 receives a clone of the handle at
\* depth k of holder h's chain
Clone(h, k, h2) ==
    /\ Tick
    /\ h2 # h
    /\ chain[h2] = <<>>
    /\ k \in 1..Len(chain[h])
    /\ LET c == CloneHandle(SubSeq(chain[h], k, Len(chain[h]))) IN
       /\ chain' = [chain EXCEPT ![h2] = c]
       /\ arc' = [s \in StorageIds |->
                    IF s \in HeldBy(c) THEN arc[s] + 1 ELSE arc[s]]
    /\ last' = [NoOp EXCEPT !.op = "clone", !.h = h, !.k = k, !.ret = h2]
    /\ UNCHANGED <<sp, tp, pend, nextId>>

\* The handle owned by holder h goes out of scope without being recycled:
\* every Arc it holds is released and nothing reaches a pool
Drop(h) ==
    /\ Tick
    /\ chain[h] # <<>>
    /\ chain' = [chain EXCEPT ![h] = <<>>]
    /\ arc' = [s \in StorageIds |->
                 IF s \in HeldBy(chain[h]) THEN arc[s] - 1 ELSE arc[s]]
    /\ last' = [NoOp EXCEPT !.op = "drop", !.h = h, !.k = 1]
    /\ UNCHANGED <<sp, tp, pend, nextId>>

\* The Err(arc) of a failed Arc::try_unwrap is dropped at the end of its
\* `if let` statement
DropErr(s) ==
    /\ Tick
    /\ pend[s] > 0
    /\ pend' = [pend EXCEPT ![s] = @ - 1]
    /\ arc' = [arc EXCEPT ![s] = @ - 1]
    /\ last' = [NoOp EXCEPT !.op = "drop_err", !.ret = s]
    /\ UNCHANGED <<chain, sp, tp, nextId>>

Next ==
    \/ \E h \in Holders : New(h)
    \/ \E h \in Holders : \E k \in 1..RootSize : ITape(h, k)
    \/ \E h \in Holders : \E k \in 1..RootSize : FTape(h, k)
    \/ \E h \in Holders : \E k \in 1..RootSize : GTape(h, k)
    \/ \E h \in Holders : \E k \in 1..RootSize : \E t \in Traces :
          Simplify(h, k, t)
    \/ \E h \in Holders : Recycle(h)
    \/ \E h, h2 \in Holders : \E k \in 1..RootSize : Clone(h, k, h2)
    \/ \E h \in Holders : Drop(h)
    \/ \E s \in StorageIds : DropErr(s)

Spec == Init /\ [][Next]_vars

\* ============================================================= TileSizes
\* The slices TileSizes::new is tried on
TileInputs == UNION {[1..n -> 0..MaxTile] : n \in 0..MaxLen}

\* Result<TileSizes, Error>, and the abort of a call
Ok(v) == [tag |-> "Ok", val |-> v, a |-> 0, b |-> 0]
Err(tag, a, b) == [tag |-> tag, val |-> <<>>, a |-> a, b |-> b]
Panicked == [tag |-> "Panic", val |-> <<>>, a |-> 0, b |-> 0]

\* sizes.to_vec()
ToVec(s) == [j \in 1..Len(s) |-> s[j]]

\* Mutation: the divisibility test is missing
RECURSIVE CheckPairsNoDiv(_, _)
CheckPairsNoDiv(s, i) ==
    IF i >= Len(s) THEN Ok(ToVec(s))
    ELSE IF s[i] <= s[i + 1] THEN Err("BadTileOrder", s[i], s[i + 1])
    ELSE CheckPairsNoDiv(s, i + 1)

\* Mutation: the loop returns Ok after its first iteration
CheckPairsFirstOnly(s, i) ==
    IF i >= Len(s) THEN Ok(ToVec(s))
    ELSE IF s[i] <= s[i + 1] THEN Err("BadTileOrder", s[i], s[i + 1])
    ELSE IF s[i + 1] = 0 THEN Panicked
    ELSE IF s[i] % s[i + 1] # 0 THEN Err("BadTileSize", s[i], s[i + 1])
    ELSE Ok(ToVec(s))

\* The body of `for i in 1..sizes.len()`, from iteration i on; the slice is
\* indexed from 1 here, so the pair compared is (s[i], s[i + 1]).  The
\* remainder of a division by zero panics.
RECURSIVE CheckPairs(_, _)
CheckPairs(s, i) ==
    IF i >= Len(s) THEN Ok(ToVec(s))
    ELSE IF s[i] <= s[i + 1] THEN Err("BadTileOrder", s[i], s[i + 1])
    ELSE IF s[i + 1] = 0 THEN Panicked
    ELSE IF s[i] % s[i + 1] # 0 THEN Err("BadTileSize", s[i], s[i + 1])
    ELSE CheckPairs(s, i + 1)

\* TileSizes::new
TileSizesNew(s) ==
    IF Len(s) = 0 THEN Err("EmptyTileSizes", 0, 0) ELSE CheckPairs(s, 1)

\* TileSizes::len
TileLen(v) == Len(v)

\* TileSizes::last: *self.0.last().unwrap()
TileLast(v) == v[Len(v)]

\* TileSizes::get: self.0.get(i).copied(), i counted from 0; None is -1
TileGet(v, i) == IF i < Len(v) THEN v[i + 1] ELSE -1

\* TileSizes::pixel_offset; -1 stands for the panic of `% 0`
PixelOffset(v, x, y) ==
    IF v[1] = 0 THEN -1
    ELSE (x % v[1]) + (y % v[1]) * v[1]

InitTiles ==
    /\ chain = [h \in Holders |-> <<>>]
    /\ sp = [h \in Holders |-> <<>>]
    /\ tp = [h \in Holders |-> <<>>]
    /\ arc = [s \in StorageIds |-> 0]
    /\ pend = [s \in StorageIds |-> 0]
    /\ nextId = 1
    /\ last = NoOp
    /\ ops = 0
    /\ sizes \in TileInputs
    /\ tiles = NotBuilt
    /\ tcall = NoCall
    /\ NoRender
    /\ NoViewer

\* let t = TileSizes::new(&sizes)
NewTiles ==
    /\ tiles = NotBuilt
    /\ tiles' = TileSizesNew(sizes)
    /\ UNCHANGED <<sizes, tcall, handleVars, renderVars,
                 viewerVars>>

\* t.len()
CallLen ==
    /\ tiles.tag = "Ok"
    /\ tcall' = [NoCall EXCEPT !.op = "len", !.ret = TileLen(tiles.val)]
    /\ UNCHANGED <<sizes, tiles, handleVars, renderVars,
                 viewerVars>>

\* t.last()
CallLast ==
    /\ tiles.tag = "Ok"
    /\ tcall' = [NoCall EXCEPT !.op = "last", !.ret = TileLast(tiles.val)]
    /\ UNCHANGED <<sizes, tiles, handleVars, renderVars,
                 viewerVars>>

\* t.get(i)
CallGet(i) ==
    /\ tiles.tag = "Ok"
    /\ tcall' = [NoCall EXCEPT !.op = "get", !.x = i,
                               !.ret = TileGet(tiles.val, i)]
    /\ UNCHANGED <<sizes, tiles, handleVars, renderVars,
                 viewerVars>>

\* t.pixel_offset(Point2::new(x, y))
CallPixelOffset(x, y) ==
    /\ tiles.tag = "Ok"
    /\ tcall' = [op |-> "pixel_offset", x |-> x, y |-> y,
                 ret |-> PixelOffset(tiles.val, x, y)]
    /\ UNCHANGED <<sizes, tiles, handleVars, renderVars,
                 viewerVars>>

NextTiles ==
    \/ NewTiles
    \/ CallLen
    \/ CallLast
    \/ \E i \in 0..MaxLen : CallGet(i)
    \/ \E x, y \in 0..MaxCoord : CallPixelOffset(x, y)

SpecTiles == InitTiles /\ [][NextTiles]_vars

\* ========================================================== the renderer
\* The tile sizes of the render configuration
RenderTiles == TileSizesNew(<<4, 2>>).val

Levels == TileLen(RenderTiles)
RootTile == RenderTiles[1]
ImageSize == NumRoot * RootTile
Coords == 0..(ImageSize - 1)
Pixels == Coords \X Coords

Max(a, b) == IF a >= b THEN a ELSE b
Min(a, b) == IF a <= b THEN a ELSE b

Modes2D == {"bit", "sdf", "debug"}
Modes == Modes2D \cup {"heightmap"}

\* The scenes: f = c, f = x - c, f = x + y - c and f = max(x - c, y - c),
\* each with an interval evaluator that is exact (slack 0) or widens its
\* result by one (slack 1)
Scenes ==
    {[kind |-> "const", c |-> c, slack |-> 0] : c \in {-1, 1}}
    \cup {[kind |-> "halfplane", c |-> c, slack |-> e] :
              c \in 0..ImageSize, e \in 0..1}
    \cup {[kind |-> "diag", c |-> c, slack |-> e] :
              c \in 0..(2 * ImageSize - 2), e \in 0..1}
    \cup {[kind |-> "corner", c |-> c, slack |-> e] :
              c \in 0..(ImageSize - 1), e \in 0..1}

\* f at a pixel
F(sc, x, y) ==
    CASE sc.kind = "const" -> sc.c
      [] sc.kind = "halfplane" -> x - sc.c
      [] sc.kind = "diag" -> x + y - sc.c
      [] sc.kind = "corner" -> Max(x - sc.c, y - sc.c)

\* f at a voxel, z counted from 1; inside is f <= 0
F3(sc, x, y, z) == F(sc, x, y) + z - 1

\* Interval evaluation over the tile with corner (x0, y0) and side s
Interval(sc, x0, y0, s) ==
    [lo |-> F(sc, x0, y0) - sc.slack,
     hi |-> F(sc, x0 + s - 1, y0 + s - 1) + sc.slack]

\* Interval evaluation over the cube with corner (x0, y0, z0) and side s
Interval3(sc, x0, y0, z0, s) ==
    [lo |-> F3(sc, x0, y0, z0) - sc.slack,
     hi |-> F3(sc, x0 + s - 1, y0 + s - 1, z0 + s - 1) + sc.slack]

\* The render mode: the empty value, the value of a tile that is inside at
\* level k, and the value of a pixel evaluated to f
EmptyValue == 0

FoldInterior(md, k) ==
    CASE md = "bit" -> 1
      [] md = "sdf" -> 8
      [] md = "debug" -> k

FoldLeaf(md, f) ==
    CASE md = "bit" -> IF f <= 0 THEN 1 ELSE 0
      [] md = "sdf" -> 10 + Max(-2, Min(2, f))
      [] md = "debug" -> Levels + 1

\* The trace of the interval evaluation over a tile: which argument of max
\* was chosen (1 or 2) when one of them is the larger on the whole tile,
\* else the empty trace 0
TraceOf(sc, x0, y0, s) ==
    IF sc.kind # "corner" THEN 0
    ELSE IF x0 >= y0 + s - 1 THEN 1
    ELSE IF y0 >= x0 + s - 1 THEN 2
    ELSE 0

\* Mutation: a tile whose upper bound is 0 counts as ambiguous
OutcomeLoose(I) ==
    IF I.hi < 0 THEN "inside"
    ELSE IF I.lo > 0 THEN "outside"
    ELSE "ambiguous"

\* The outcome of an interval result
Outcome(I) ==
    IF I.hi <= 0 THEN "inside"
    ELSE IF I.lo > 0 THEN "outside"
    ELSE "ambiguous"

\* A worker's buffer, one root tile large, and an image
EmptyBuffer == [j \in 1..(RootTile * RootTile) |-> EmptyValue]
EmptyImage == [p \in Pixels |-> EmptyValue]

InTile(x0, y0, s, x, y) ==
    /\ x0 <= x /\ x < x0 + s
    /\ y0 <= y /\ y < y0 + s

\* The place of pixel (x, y) in a worker's buffer
BufferIndex(x, y) == PixelOffset(RenderTiles, x, y) + 1

\* A worker's frame for one root tile: its buffer, the tiles the recursion
\* has visited (level, corner, outcome, whether simplify was called and
\* whether it descended) and how often each pixel has been resolved
EmptyFrame ==
    [buf |-> EmptyBuffer, log |-> <<>>,
     res |-> [j \in 1..(RootTile * RootTile) |-> 0]]

Visit(k, x0, y0, o, simp, desc) ==
    [k |-> k, x |-> x0, y |-> y0, out |-> o, simp |-> simp, desc |-> desc]

\* The buffer places of the pixels of a tile
Places(x0, y0, s) ==
    {BufferIndex(p[1], p[2]) :
        p \in {q \in Pixels : InTile(x0, y0, s, q[1], q[2])}}

\* The pixel of a tile that is stored at place j
PixelAt(x0, y0, s, j) ==
    CHOOSE p \in Pixels :
        InTile(x0, y0, s, p[1], p[2]) /\ BufferIndex(p[1], p[2]) = j

\* The 2D recursion on the tile of level k with corner (x0, y0);
\* RenderSub2D visits the sub-tiles j, j + 1, ... in row-major order
RECURSIVE RenderTile2D(_, _, _, _, _, _)
RECURSIVE RenderSub2D(_, _, _, _, _, _, _)
RenderTile2D(sc, md, k, x0, y0, fr) ==
    LET s == RenderTiles[k]
        o == Outcome(Interval(sc, x0, y0, s))
        here == Places(x0, y0, s)
        once == [j \in DOMAIN fr.res |->
                    IF j \in here THEN fr.res[j] + 1 ELSE fr.res[j]]
    IN  IF o = "inside"
        THEN [buf |-> [j \in DOMAIN fr.buf |->
                         IF j \in here THEN FoldInterior(md, k)
                         ELSE fr.buf[j]],
              log |-> Append(fr.log, Visit(k, x0, y0, o, FALSE, FALSE)),
              res |-> once]
        ELSE IF o = "outside"
        THEN [buf |-> fr.buf,
              log |-> Append(fr.log, Visit(k, x0, y0, o, FALSE, FALSE)),
              res |-> once]
        ELSE LET fr2 == [fr EXCEPT !.log = Append(@,
                            Visit(k, x0, y0, o,
                                  TraceOf(sc, x0, y0, s) # 0, TRUE))]
             IN  IF k < Levels
                 THEN RenderSub2D(sc, md, k, x0, y0, 0, fr2)
                 ELSE [buf |-> [j \in DOMAIN fr.buf |->
                                  IF j \in here
                                  THEN LET p == PixelAt(x0, y0, s, j)
                                       IN  FoldLeaf(md, F(sc, p[1], p[2]))
                                  ELSE fr.buf[j]],
                       log |-> fr2.log,
                       res |-> once]

RenderSub2D(sc, md, k, x0, y0, j, fr) ==
    LET t == RenderTiles[k + 1]
        n == RenderTiles[k] \div t
    IN  IF j >= n * n THEN fr
        ELSE RenderSub2D(sc, md, k, x0, y0, j + 1,
                 RenderTile2D(sc, md, k + 1,
                     x0 + (j % n) * t, y0 + (j \div n) * t, fr))

\* The voxel nearest to the camera (largest z) of column (x, y) between z0
\* and zhi that is inside; 0 if none is
RECURSIVE FirstHit(_, _, _, _, _)
FirstHit(sc, x, y, z0, zhi) ==
    IF zhi < z0 THEN 0
    ELSE IF F3(sc, x, y, zhi) <= 0 THEN zhi
    ELSE FirstHit(sc, x, y, z0, zhi - 1)

\* The 3D recursion on the cube of level k with corner (x0, y0, z0) over
\* the heightmap H; RenderSub3D visits the sub-cubes front to back
RECURSIVE RenderTile3D(_, _, _, _, _, _)
RECURSIVE RenderSub3D(_, _, _, _, _, _, _)
RenderTile3D(sc, k, x0, y0, z0, H) ==
    LET s == RenderTiles[k]
        zhi == z0 + s - 1
        foot == {p \in Pixels : InTile(x0, y0, s, p[1], p[2])}
        o == Outcome(Interval3(sc, x0, y0, z0, s))
    IN  IF \A p \in foot : zhi <= H[p] THEN H
        ELSE IF o = "inside"
        THEN [p \in Pixels |-> IF p \in foot THEN Max(H[p], zhi) ELSE H[p]]
        ELSE IF o = "outside" THEN H
        ELSE IF k < Levels THEN RenderSub3D(sc, k, x0, y0, z0, 0, H)
        ELSE [p \in Pixels |->
                 IF p \in foot
                 THEN Max(H[p], FirstHit(sc, p[1], p[2], z0, zhi))
                 ELSE H[p]]

RenderSub3D(sc, k, x0, y0, z0, j, H) ==
    LET t == RenderTiles[k + 1]
        n == RenderTiles[k] \div t
    IN  IF j >= n * n * n THEN H
        ELSE RenderSub3D(sc, k, x0, y0, z0, j + 1,
                 RenderTile3D(sc, k + 1,
                     x0 + (j % n) * t,
                     y0 + ((j \div n) % n) * t,
                     z0 + (n - 1 - (j \div (n * n))) * t, H))

\* The root tiles of a render, numbered from 0: squares in 2D; in 3D the
\* cubes of one square follow each other, far to near
Depth(md) == IF md \in Modes2D THEN 1 ELSE NumRoot

Units(md) == 0..(NumRoot * NumRoot * Depth(md) - 1)

UnitX(md, u) == ((u \div Depth(md)) % NumRoot) * RootTile
UnitY(md, u) == ((u \div Depth(md)) \div NumRoot) * RootTile
UnitZ(md, u) == (u % Depth(md)) * RootTile + 1

Workers(n) == 1..n

\* Mutation: every worker is given every root tile
OwnsAll(md, w, n) == Units(md)

\* The static partition: the root tiles of worker w among n workers
Owns(md, w, n) == {u \in Units(md) : u % n = w - 1}

\* The root tiles of worker w in the order it renders them
RECURSIVE Ascending(_)
Ascending(S) ==
    IF S = {} THEN <<>>
    ELSE LET u == CHOOSE u \in S : \A v \in S : u <= v
         IN  <<u>> \o Ascending(S \ {u})

WorkList(md, w, n) == Ascending(Owns(md, w, n))

\* A worker's output: the buffers of its finished root tiles (2D) and its
\* heightmap (3D)
NoOutput == [tiles |-> <<>>, hmap |-> EmptyImage]

\* The orchestrator copies the buffer of root tile u into the image
Blit(md, img, u, buf) ==
    [p \in Pixels |->
        IF InTile(UnitX(md, u), UnitY(md, u), RootTile, p[1], p[2])
        THEN buf[BufferIndex(p[1], p[2])]
        ELSE img[p]]

RECURSIVE BlitAll(_, _, _, _)
BlitAll(md, img, ts, i) ==
    IF i > Len(ts) THEN img
    ELSE BlitAll(md, Blit(md, img, ts[i].unit, ts[i].buf), ts, i + 1)

\* Mutation: the heightmap merged last replaces the image
MergeOverwrite(img, H) == H

\* The per-pixel max reduction of two heightmaps
MergeMax(img, H) == [p \in Pixels |-> Max(img[p], H[p])]

\* The pixels the orchestrator writes when it merges the output of w
Written(md, o) ==
    IF md \in Modes2D
    THEN {p \in Pixels : \E i \in 1..Len(o.tiles) :
              InTile(UnitX(md, o.tiles[i].unit), UnitY(md, o.tiles[i].unit),
                     RootTile, p[1], p[2])}
    ELSE Pixels

InitRender ==
    /\ chain = [h \in Holders |-> <<>>]
    /\ sp = [h \in Holders |-> <<>>]
    /\ tp = [h \in Holders |-> <<>>]
    /\ arc = [s \in StorageIds |-> 0]
    /\ pend = [s \in StorageIds |-> 0]
    /\ nextId = 1
    /\ last = NoOp
    /\ ops = 0
    /\ sizes = <<>> /\ tiles = NotBuilt /\ tcall = NoCall
    /\ scene \in Scenes
    /\ mode \in Modes
    /\ threads \in 1..MaxThreads
    /\ finished = [w \in Workers(threads) |-> 0]
    /\ out = [w \in Workers(threads) |-> NoOutput]
    /\ joined = {} /\ merged = {}
    /\ image = EmptyImage
    /\ writes = [p \in Pixels |-> {}]
    /\ rstep = [op |-> "none", w |-> 0]
    /\ NoViewer

\* Worker w renders its next root tile
WorkerStep(w) ==
    /\ finished[w] < Len(WorkList(mode, w, threads))
    /\ LET u == WorkList(mode, w, threads)[finished[w] + 1]
       IN  out' = [out EXCEPT ![w] =
                IF mode \in Modes2D
                THEN LET fr == RenderTile2D(scene, mode, 1,
                                   UnitX(mode, u), UnitY(mode, u),
                                   EmptyFrame)
                     IN  [@ EXCEPT !.tiles = Append(@,
                             [unit |-> u, buf |-> fr.buf, log |-> fr.log,
                              res |-> fr.res])]
                ELSE [@ EXCEPT !.hmap = RenderTile3D(scene, 1,
                                     UnitX(mode, u), UnitY(mode, u),
                                     UnitZ(mode, u), @)]]
    /\ finished' = [finished EXCEPT ![w] = @ + 1]
    /\ rstep' = [op |-> "work", w |-> w]
    /\ UNCHANGED <<scene, mode, threads, joined, merged, image, writes,
                   handleVars, tileVars, viewerVars>>

\* The orchestrator joins worker w, which has finished its root tiles
Join(w) ==
    /\ w \notin joined
    /\ finished[w] = Len(WorkList(mode, w, threads))
    /\ joined' = joined \cup {w}
    /\ rstep' = [op |-> "join", w |-> w]
    /\ UNCHANGED <<scene, mode, threads, finished, out, merged, image,
                   writes, handleVars, tileVars, viewerVars>>

\* The orchestrator, all workers joined, merges the output of worker w
\* into the final image
Composite(w) ==
    /\ joined = Workers(threads)
    /\ w \notin merged
    /\ image' = IF mode \in Modes2D
                THEN BlitAll(mode, image, out[w].tiles, 1)
                ELSE MergeMax(image, out[w].hmap)
    /\ writes' = [p \in Pixels |->
                     IF p \in Written(mode, out[w])
                     THEN writes[p] \cup {w} ELSE writes[p]]
    /\ merged' = merged \cup {w}
    /\ rstep' = [op |-> "composite", w |-> w]
    /\ UNCHANGED <<scene, mode, threads, finished, out, joined,
                   handleVars, tileVars, viewerVars>>

NextRender ==
    \/ \E w \in Workers(threads) : WorkerStep(w)
    \/ \E w \in Workers(threads) : Join(w)
    \/ \E w \in Workers(threads) : Composite(w)

SpecRender == InitRender /\ [][NextRender]_vars

\* ======================================== the viewer's render thread
\* The messages of channel rx: Ok(script context n) is n, Err(e) is ErrMsg
ErrMsg == -1

\* What the thread has received and sent, in order
Event(ev, ctx, cfg) == [ev |-> ev, ctx |-> ctx, cfg |-> cfg]

\* Mutation: one of the two suffices
CanRenderEither(ch, ctx, cf) == ch /\ (ctx # None \/ cf # None)

\* `if let (Some(out), Some(render_config)) = (&script_ctx, &config)`
\* behind `if !changed { continue; }`
CanRender(ch, ctx, cf) == ch /\ ctx # None /\ cf # None

\* Mutation: the flag stays set
NotCleared == TRUE

\* changed = false, after the result has been sent
Cleared == FALSE

\* Mutation: a wake message follows the forwarded error too
ForwardErrorAndWake(log) ==
    log \o <<Event("recv_err", 0, 0), Event("err", 0, 0),
             Event("wake", 0, 0)>>

\* tx.send(Err(e.to_string()))
ForwardError(log) ==
    log \o <<Event("recv_err", 0, 0), Event("err", 0, 0)>>

InitViewer ==
    /\ chain = [h \in Holders |-> <<>>]
    /\ sp = [h \in Holders |-> <<>>]
    /\ tp = [h \in Holders |-> <<>>]
    /\ arc = [s \in StorageIds |-> 0]
    /\ pend = [s \in StorageIds |-> 0]
    /\ nextId = 1
    /\ last = NoOp
    /\ ops = 0
    /\ sizes = <<>> /\ tiles = NotBuilt /\ tcall = NoCall
    /\ NoRender
    /\ rxq = <<>> /\ cfgq = <<>>
    /\ config = None /\ script_ctx = None /\ changed = FALSE
    /\ pc = "select" /\ nscript = 0 /\ ncfg = 0
    /\ vlog = <<>>

\* rhai_script_thread sends the result of a script run
ScriptResult(ok) ==
    /\ nscript < MaxScripts
    /\ nscript' = nscript + 1
    /\ rxq' = Append(rxq, IF ok THEN nscript + 1 ELSE ErrMsg)
    /\ UNCHANGED <<cfgq, config, script_ctx, changed, pc, ncfg, vlog,
                   handleVars, tileVars, renderVars>>

\* ViewerApp::update sends the settings it has changed
Settings ==
    /\ ncfg < MaxSettings
    /\ ncfg' = ncfg + 1
    /\ cfgq' = Append(cfgq, ncfg + 1)
    /\ UNCHANGED <<rxq, config, script_ctx, changed, pc, nscript, vlog,
                   handleVars, tileVars, renderVars>>

\* select!: recv(rx) -> Ok(s)
RecvScript ==
    /\ pc = "select"
    /\ rxq # <<>> /\ Head(rxq) # ErrMsg
    /\ rxq' = Tail(rxq)
    /\ script_ctx' = Head(rxq)
    /\ changed' = TRUE
    /\ vlog' = Append(vlog, Event("recv_ctx", Head(rxq), 0))
    /\ UNCHANGED <<cfgq, config, pc, nscript, ncfg,
                   handleVars, tileVars, renderVars>>

\* select!: recv(rx) -> Err(e), forwarded; the loop body goes on
RecvError ==
    /\ pc = "select"
    /\ rxq # <<>> /\ Head(rxq) = ErrMsg
    /\ rxq' = Tail(rxq)
    /\ vlog' = ForwardError(vlog)
    /\ pc' = "check"
    /\ UNCHANGED <<cfgq, config, script_ctx, changed, nscript, ncfg,
                   handleVars, tileVars, renderVars>>

\* select!: recv(cfg)
RecvConfig ==
    /\ pc = "select"
    /\ cfgq # <<>>
    /\ cfgq' = Tail(cfgq)
    /\ config' = Head(cfgq)
    /\ changed' = TRUE
    /\ vlog' = Append(vlog, Event("recv_cfg", 0, Head(cfgq)))
    /\ UNCHANGED <<rxq, script_ctx, pc, nscript, ncfg,
                   handleVars, tileVars, renderVars>>

\* select!: default(timeout), no message being ready
Timeout ==
    /\ pc = "select"
    /\ rxq = <<>> /\ cfgq = <<>>
    /\ pc' = "check"
    /\ UNCHANGED <<rxq, cfgq, config, script_ctx, changed, nscript, ncfg,
                   vlog, handleVars, tileVars, renderVars>>

\* Nothing to render: back to the head of the loop
Skip ==
    /\ pc = "check"
    /\ ~CanRender(changed, script_ctx, config)
    /\ pc' = "select"
    /\ UNCHANGED <<rxq, cfgq, config, script_ctx, changed, nscript, ncfg,
                   vlog, handleVars, tileVars, renderVars>>

\* The render and tx.send(Ok(RenderResult))
Render ==
    /\ pc = "check"
    /\ CanRender(changed, script_ctx, config)
    /\ vlog' = Append(vlog, Event("ok", script_ctx, config))
    /\ pc' = "clear"
    /\ UNCHANGED <<rxq, cfgq, config, script_ctx, changed, nscript, ncfg,
                   handleVars, tileVars, renderVars>>

\* changed = false
Clear ==
    /\ pc = "clear"
    /\ changed' = Cleared
    /\ pc' = "wake"
    /\ UNCHANGED <<rxq, cfgq, config, script_ctx, nscript, ncfg, vlog,
                   handleVars, tileVars, renderVars>>

\* wake.send(())
Wake ==
    /\ pc = "wake"
    /\ vlog' = Append(vlog, Event("wake", 0, 0))
    /\ pc' = "select"
    /\ UNCHANGED <<rxq, cfgq, config, script_ctx, changed, nscript, ncfg,
                   handleVars, tileVars, renderVars>>

\* One step of the render thread
ThreadStep ==
    \/ RecvScript
    \/ RecvError
    \/ RecvConfig
    \/ Timeout
    \/ Skip
    \/ Render
    \/ Clear
    \/ Wake

NextViewer ==
    \/ \E ok \in BOOLEAN : ScriptResult(ok)
    \/ Settings
    \/ ThreadStep

SpecViewer == InitViewer /\ [][NextViewer]_vars

\* The render thread keeps running
SpecViewerFair == SpecViewer /\ WF_vars(ThreadStep)

\* ======================================================== the properties
Getters == {"i_tape", "f_tape", "g_tape"}

\* The handle the last call was made on, before and after the call
Self == chain[last'.h][last'.k]
SelfAfter == chain'[last'.h][last'.k]

\* Two successive simplify calls on the same handle with the same trace
SameCallAgain ==
    /\ last.op = "simplify" /\ last'.op = "simplify"
    /\ last'.h = last.h /\ last'.k = last.k /\ last'.tr = last.tr

\* The second call is answered from the cache: same handle returned,
\* Shape::simplify not invoked, chain and pools untouched
AnsweredFromCache ==
    /\ last'.ret = last.ret
    /\ ~last'.invoked
    /\ last'.log = <<>>
    /\ UNCHANGED <<chain, sp, tp, arc, pend, nextId>>

\* C1 (as stated): calling simplify twice in a row on the same handle with
\* the same trace returns the same handle both times, and the second call
\* neither invokes Shape::simplify nor pops anything from the pools.
C1_Original == [][SameCallAgain => AnsweredFromCache]_vars

\* C1 (amended): when the first of two successive simplify calls with the
\* same trace on the same handle returned a child, the second call returns
\* the same child, does not invoke Shape::simplify and pops nothing.
C1_CacheReuse ==
    [][(SameCallAgain /\ last.ret = last.k + 1) => AnsweredFromCache]_vars

C1_Witness ==
    /\ last.op = "simplify" /\ last.rep = "child"
    /\ ~last.invoked /\ last.ret = last.k + 1

\* C2: every handle with a cached child has a strictly larger shape than
\* that child, so sizes strictly decrease along every chain.
C2_ChildMonotone ==
    \A h \in Holders : \A k \in 1..(Len(chain[h]) - 1) :
        ShapeSize(chain[h][k + 1].shape) < ShapeSize(chain[h][k].shape)

C2_Witness ==
    \E h \in Holders :
        /\ Len(chain[h]) = 3
        /\ ShapeSize(chain[h][1].shape) > ShapeSize(chain[h][2].shape)
        /\ ShapeSize(chain[h][2].shape) > ShapeSize(chain[h][3].shape)

\* A simplify call that finds no reusable child (none cached, or one cached
\* under another trace)
CacheMiss == last'.op = "simplify" /\ Self.tr # last'.tr

CandidateSize == SimplifiedSize(ShapeSize(Self.shape), last'.tr)

\* C3: on a cache miss simplify installs the candidate as the new child and
\* returns it exactly when the candidate is strictly smaller than the
\* handle's shape; otherwise it returns the handle itself and caches nothing.
C3_AcceptIffSmaller ==
    [][CacheMiss =>
        IF CandidateSize < ShapeSize(Self.shape)
        THEN /\ last'.ret = last'.k + 1
             /\ Len(chain'[last'.h]) = last'.k + 1
             /\ SelfAfter.tr = last'.tr
             /\ chain'[last'.h][last'.k + 1].shape.path =
                    Append(Self.shape.path, last'.tr)
             /\ ShapeSize(chain'[last'.h][last'.k + 1].shape) = CandidateSize
        ELSE /\ last'.ret = last'.k
             /\ Len(chain'[last'.h]) = last'.k
             /\ SelfAfter.tr = NoTrace]_vars

C3_Witness ==
    /\ last.op = "simplify" /\ last.invoked /\ last.ret = last.k
    /\ SimplifiedSize(ShapeSize(chain[last.h][last.k].shape), last.tr) =
           ShapeSize(chain[last.h][last.k].shape)

\* A simplify call whose candidate was rejected
Rejected == last'.op = "simplify" /\ last'.invoked /\ last'.ret = last'.k

\* C4 (as stated): a rejecting simplify call leaves the handle's shape, its
\* three tape slots and its cached (trace, child) entry as they were.
C4_Original == [][Rejected => chain'[last'.h] = chain[last'.h]]_vars

\* C4 (amended): a rejecting simplify call returns the candidate's storage
\* to the shape pool and leaves the handle's shape, its three tape slots and
\* its ancestors as they were; the cached entry is unchanged when the handle
\* had none, and is removed (the old child having been recycled) when the
\* handle had one under a different trace.
C4_RejectFrame ==
    [][Rejected =>
        /\ SelfAfter = [Self EXCEPT !.tr = NoTrace]
        /\ chain'[last'.h] = SubSeq(chain[last'.h], 1, last'.k - 1)
                                \o <<SelfAfter>>
        /\ Self.tr = NoTrace => chain' = chain
        /\ Len(sp'[last'.h]) > 0
        /\ last'.log[Len(last'.log)] =
              Ev("push", "shape", sp'[last'.h][Len(sp'[last'.h])],
                 last'.k + 1)
        /\ \E j \in 1..Len(last'.log) :
              /\ last'.log[j].ev \in {"pop", "alloc"}
              /\ last'.log[j].pool = "shape"
              /\ last'.log[j].s = sp'[last'.h][Len(sp'[last'.h])]]_vars

C4_Witness ==
    /\ last.op = "simplify" /\ last.invoked /\ last.ret = last.k
    /\ \E j \in 1..Len(last.log) :
          last.log[j].ev = "push" /\ last.log[j].pool = "tape"

\* C5: a cached entry (t, child) always holds the simplification of the
\* handle's own shape under t, and a child returned by simplify(trace) was
\* built from that very trace.
C5_ChildMatchesTrace ==
    /\ \A h \in Holders : \A k \in 1..Len(chain[h]) :
          IF k < Len(chain[h])
          THEN /\ chain[h][k].tr \in Traces
               /\ chain[h][k + 1].shape.path =
                     Append(chain[h][k].shape.path, chain[h][k].tr)
               /\ ShapeSize(chain[h][k + 1].shape) =
                     SimplifiedSize(ShapeSize(chain[h][k].shape),
                                    chain[h][k].tr)
          ELSE chain[h][k].tr = NoTrace
    /\ (last.op = "simplify" /\ last.ret = last.k + 1) =>
          /\ chain[last.h][last.k].tr = last.tr
          /\ chain[last.h][last.k + 1].shape.path =
                Append(chain[last.h][last.k].shape.path, last.tr)

C5_Witness ==
    /\ last.op = "simplify" /\ last.invoked /\ last.ret = last.k + 1
    /\ \E j \in 1..Len(last.log) : last.log[j].ev = "push"
\* The storages lying in a shape pool and a tape pool
IdsIn(spool, tpool) ==
    {spool[j] : j \in 1..Len(spool)} \cup {tpool[j] : j \in 1..Len(tpool)}

\* The handle chain of holder h shares none of its shapes and tapes
UniquelyHeld(h) == \A s \in HeldBy(chain[h]) : arc[s] = 1

\* C6: a getter, simplify or recycle call on a uniquely held chain loses no
\* storage: what the chain holds plus what its pools hold is, after the call,
\* what it was before plus the fresh allocations of the call, each storage
\* counted once; after recycle all of it is in the pools.
C6_Conservation ==
    [][(last'.op \in Getters \cup {"simplify", "recycle"}
          /\ UniquelyHeld(last'.h)) =>
        /\ HeldBy(chain'[last'.h]) \cup IdsIn(sp'[last'.h], tp'[last'.h]) =
              HeldBy(chain[last'.h]) \cup IdsIn(sp[last'.h], tp[last'.h])
                 \cup (nextId..(nextId' - 1))
        /\ Cardinality(HeldBy(chain'[last'.h]))
              + Len(sp'[last'.h]) + Len(tp'[last'.h]) =
           Cardinality(HeldBy(chain[last'.h]))
              + Len(sp[last'.h]) + Len(tp[last'.h]) + (nextId' - nextId)
        /\ last'.op = "recycle" =>
              /\ chain'[last'.h] = <<>>
              /\ Len(last'.log) = Cardinality(HeldBy(chain[last'.h]))]_vars

C6_Witness ==
    /\ last.op = "recycle" /\ Len(last.log) >= 3
    /\ \A h \in Holders : chain[h] = <<>>
    /\ Len(sp[last.h]) + Len(tp[last.h]) = nextId - 1

\* The tape slots of a chain
TapesOf(nodes) ==
    ({nodes[j].i_tape : j \in 1..Len(nodes)} \cup
     {nodes[j].f_tape : j \in 1..Len(nodes)} \cup
     {nodes[j].g_tape : j \in 1..Len(nodes)}) \ {NoTape}

\* The places of all tape pools where storage s lies
Occurrences(s) ==
    UNION {{<<h, j>> : j \in {i \in 1..Len(tp[h]) : tp[h][i] = s}} :
             h \in Holders}

TapePushes(log) ==
    {log[j].s : j \in {i \in 1..Len(log) :
                          log[i].ev = "push" /\ log[i].pool = "tape"}}

\* C7: a tape storage lies in the pools at most once and never while a
\* handle still holds its tape; a call pushes a tape storage only when the
\* calling holder has the last reference to the tape; recycling or dropping
\* a handle leaves every other holder's chain and tapes as they were, out of
\* all pools.
C7_SharedTapePushedOnce ==
    [][/\ \A s \in StorageIds : Cardinality(Occurrences(s)') <= 1
       /\ \A h \in Holders : \A s \in TapesOf(chain'[h]) :
             Occurrences(s)' = {} /\ arc'[s] >= 1
       /\ \A s \in TapePushes(last'.log) :
             /\ arc[s] = 1 /\ pend[s] = 0
             /\ s \in TapesOf(chain[last'.h])
             /\ \A x \in Holders \ {last'.h} : s \notin TapesOf(chain[x])
       /\ last'.op \in {"recycle", "drop"} =>
             \A x \in Holders \ {last'.h} : chain'[x] = chain[x]
       /\ last'.op = "drop" => UNCHANGED <<sp, tp>>]_vars

C7_Witness ==
    /\ last.op = "recycle"
    /\ \E x \in Holders \ {last.h} : \E s \in TapesOf(chain[x]) :
          pend[s] > 0 /\ arc[s] = 2 /\ Occurrences(s) = {}

IsTapePush(e) == e.ev = "push" /\ e.pool = "tape"
IsShapePush(e) == e.ev = "push" /\ e.pool = "shape"

\* The last n elements of a sequence
Suffix(q, n) == SubSeq(q, Len(q) - n + 1, Len(q))

\* C8: recycle pushes every storage of a descendant before any storage of
\* its ancestor, and a handle's tape storages before its shape storage; the
\* pools end with the pushed storages in that order.
C8_ChildBeforeParent ==
    last.op = "recycle" =>
       /\ \A i, j \in 1..Len(last.log) : i < j =>
             /\ last.log[i].d >= last.log[j].d
             /\ last.log[i].d = last.log[j].d =>
                   ~(IsShapePush(last.log[i]) /\ IsTapePush(last.log[j]))
       /\ LET tpush == SelectSeq(last.log, IsTapePush)
              spush == SelectSeq(last.log, IsShapePush)
          IN  /\ Len(tpush) + Len(spush) = Len(last.log)
              /\ Len(tpush) <= Len(tp[last.h])
              /\ Len(spush) <= Len(sp[last.h])
              /\ Suffix(tp[last.h], Len(tpush)) =
                    [j \in 1..Len(tpush) |-> tpush[j].s]
              /\ Suffix(sp[last.h], Len(spush)) =
                    [j \in 1..Len(spush) |-> spush[j].s]

C8_Witness ==
    /\ last.op = "recycle"
    /\ \E i, j \in 1..Len(last.log) :
          /\ i < j
          /\ IsShapePush(last.log[i]) /\ last.log[i].d = 2
          /\ IsTapePush(last.log[j]) /\ last.log[j].d = 1
    /\ \E i \in 1..Len(last.log) :
          IsTapePush(last.log[i]) /\ last.log[i].d = 2

\* C9: clone yields a single handle with the source's shape and tapes and
\* no cached child and changes no other chain and no pool; a simplify call
\* changes no chain but the caller's.
C9_CloneFrame ==
    [][/\ last'.op = "clone" =>
             /\ chain'[last'.ret] = <<[Self EXCEPT !.tr = NoTrace]>>
             /\ \A x \in Holders \ {last'.ret} : chain'[x] = chain[x]
             /\ UNCHANGED <<sp, tp>>
       /\ last'.op = "simplify" =>
             \A x \in Holders \ {last'.h} : chain'[x] = chain[x]]_vars

C9_Witness ==
    /\ last.op = "simplify" /\ last.invoked /\ last.ret = last.k + 1
    /\ \E x \in Holders \ {last.h} :
          /\ Len(chain[x]) >= 2
          /\ chain[x][1].shape = chain[last.h][1].shape
          /\ chain[x][1].i_tape # NoTape
          /\ chain[x][1].i_tape = chain[last.h][1].i_tape
          /\ chain[x][1].tr # chain[last.h][1].tr

Slot(node, op) ==
    CASE op = "i_tape" -> node.i_tape
      [] op = "f_tape" -> node.f_tape
      [] op = "g_tape" -> node.g_tape

Offending(s) ==
    {i \in 1..(Len(s) - 1) :
        \/ s[i] <= s[i + 1]
        \/ s[i + 1] = 0
        \/ s[i] % s[i + 1] # 0}

\* C11: TileSizes::new returns Ok exactly when the slice is non-empty and
\* every adjacent pair is strictly decreasing and divisible (a zero divides
\* nothing), and the TileSizes it returns holds the slice unchanged.
C11_OkIffValid ==
    tiles.tag # "None" =>
       /\ tiles.tag = "Ok" <=>
             /\ Len(sizes) > 0
             /\ \A i \in 1..(Len(sizes) - 1) :
                   /\ sizes[i] > sizes[i + 1]
                   /\ sizes[i + 1] # 0
                   /\ sizes[i] % sizes[i + 1] = 0
       /\ tiles.tag = "Ok" => tiles.val = sizes

C11_Witness ==
    /\ tiles.tag = "Ok" /\ Len(sizes) = 3
    /\ tiles.val = sizes

\* The error the first offending pair of s calls for
ExpectedError(s) ==
    IF Len(s) = 0 THEN Err("EmptyTileSizes", 0, 0)
    ELSE LET i == CHOOSE j \in Offending(s) :
                     \A m \in Offending(s) : j <= m
         IN  IF s[i] <= s[i + 1]
             THEN Err("BadTileOrder", s[i], s[i + 1])
             ELSE Err("BadTileSize", s[i], s[i + 1])

\* C12: a slice that TileSizes::new does not accept is rejected with
\* EmptyTileSizes when it is empty, and else with the error of its first
\* offending pair (a, b): BadTileOrder(a, b) when a <= b, BadTileSize(a, b)
\* when b does not divide a.
C12_Original ==
    tiles.tag \notin {"None", "Ok"} => tiles = ExpectedError(sizes)

\* C13: no accepted TileSizes contains 0.
C13_Original ==
    tiles.tag = "Ok" => \A i \in 1..Len(tiles.val) : tiles.val[i] > 0

\* C14: TileSizes::new ends with Ok or with one of its three errors,
\* whatever the slice.
C14_Original ==
    tiles.tag \in {"None", "Ok", "EmptyTileSizes", "BadTileOrder",
                   "BadTileSize"}

\* C15: in an accepted TileSizes every size is divisible by every later
\* size, and last() is the smallest size and divides all the others.
C15_DividesAllLater ==
    tiles.tag = "Ok" =>
       /\ \A i, j \in 1..Len(tiles.val) : i < j =>
             /\ tiles.val[j] # 0
             /\ tiles.val[i] % tiles.val[j] = 0
       /\ tcall.op = "last" =>
             /\ \E i \in 1..Len(tiles.val) : tcall.ret = tiles.val[i]
             /\ \A i \in 1..Len(tiles.val) : tcall.ret <= tiles.val[i]
             /\ \A i \in 1..(Len(tiles.val) - 1) :
                   tiles.val[i] % tcall.ret = 0

C15_Witness ==
    /\ tiles.tag = "Ok" /\ Len(tiles.val) = 3
    /\ tcall.op = "last" /\ tcall.ret = tiles.val[3]
    /\ tiles.val[1] % tiles.val[3] = 0

\* C16: pixel_offset((x, y)) is (x mod s0) + (y mod s0) * s0 for the
\* largest size s0, lies in 0 .. s0 * s0 - 1, and tells apart any two
\* points of one root tile.
C16_Original ==
    tcall.op = "pixel_offset" =>
       LET s0 == tiles.val[1] IN
       /\ tcall.ret \in 0..(s0 * s0 - 1)
       /\ tcall.ret = (tcall.x % s0) + (tcall.y % s0) * s0
       /\ \A x, y \in 0..MaxCoord :
             (/\ x \div s0 = tcall.x \div s0
              /\ y \div s0 = tcall.y \div s0
              /\ PixelOffset(tiles.val, x, y) = tcall.ret)
                => (x = tcall.x /\ y = tcall.y)
\* ------------------------------------------ RenderHandle, continued
\* Slot o of the handle at depth k of holder h's chain holds a tape after
\* the step that it did not hold before it
Populated(h, k, o) ==
    /\ k <= Len(chain'[h])
    /\ Slot(chain'[h][k], o) # NoTape
    /\ ~(k <= Len(chain[h]) /\ Slot(chain[h][k], o) = Slot(chain'[h][k], o))

EmptyHandle(node) ==
    /\ node.i_tape = NoTape /\ node.f_tape = NoTape /\ node.g_tape = NoTape
    /\ node.tr = NoTrace

\* new and simplify build handles without tapes and without child
BuildsEmpty ==
    /\ last'.op = "new" =>
          chain'[last'.h] = <<NewHandle(RootShape(nextId))>>
             /\ EmptyHandle(chain'[last'.h][1])
    /\ (last'.op = "simplify" /\ last'.invoked /\ last'.ret = last'.k + 1) =>
          /\ Len(chain'[last'.h]) = last'.k + 1
          /\ EmptyHandle(chain'[last'.h][last'.k + 1])

ByOwnGetter(h, k, o) == last'.op = o /\ last'.h = h /\ last'.k = k

\* C19 (as stated): new and simplify build handles with three empty tape
\* slots and no child, and a tape slot gets a tape only by a call of its own
\* getter on that handle.
C19_Original ==
    [][/\ BuildsEmpty
       /\ \A h \in Holders : \A k \in 1..(RootSize + 1) : \A o \in Getters :
             Populated(h, k, o) => ByOwnGetter(h, k, o)]_vars

\* C19 (amended): new and simplify build handles with three empty tape
\* slots and no child; a tape slot of a handle gets a tape only by a call of
\* its own getter on that handle, or when the handle is made by clone, which
\* copies the slots of its source as they are.
C19_LazyTapes ==
    [][/\ BuildsEmpty
       /\ \A h \in Holders : \A k \in 1..(RootSize + 1) : \A o \in Getters :
             Populated(h, k, o) =>
                \/ ByOwnGetter(h, k, o)
                \/ /\ last'.op = "clone" /\ last'.ret = h /\ k = 1
                   /\ Slot(chain'[h][1], o) = Slot(Self, o)]_vars

C19_Witness ==
    /\ last.op = "simplify" /\ last.invoked /\ last.ret = last.k + 1
    /\ chain[last.h][last.k].i_tape # NoTape
    /\ chain[last.h][last.k].f_tape # NoTape
    /\ EmptyHandle(chain[last.h][last.k + 1])

\* A simplify call on a handle whose cached child is stored under another
\* trace
Mismatch ==
    /\ last'.op = "simplify"
    /\ Self.tr # NoTrace /\ Self.tr # last'.tr

\* The chain below the handle the call is made on
OldChild == SubSeq(chain[last'.h], last'.k + 1, Len(chain[last'.h]))

\* The place in the log where the storage of the candidate is taken
TakenAt(j) ==
    /\ j \in 1..Len(last'.log)
    /\ last'.log[j].ev \in {"pop", "alloc"}
    /\ last'.log[j].pool = "shape"

\* C20: on a trace mismatch the old child and all its descendants are
\* recycled before the candidate is built: every storage they hold alone is
\* pushed before the candidate's shape storage is taken, the candidate takes
\* the old child's shape storage when that was returned, and the old child
\* and its descendants are gone from the chain after the call.
C20_RecycleBeforeBuild ==
    [][Mismatch =>
        \E j \in 1..Len(last'.log) :
           /\ TakenAt(j)
           /\ \A i \in 1..Len(last'.log) : TakenAt(i) => i = j
           /\ \A i \in 1..(j - 1) :
                 /\ last'.log[i].ev = "push"
                 /\ last'.log[i].s \in HeldBy(OldChild)
                 /\ last'.log[i].d > last'.k
           /\ {last'.log[i].s : i \in 1..(j - 1)} =
                 {s \in HeldBy(OldChild) : arc[s] = 1}
           /\ arc[OldChild[1].shape.st] = 1 =>
                 last'.log[j] = Ev("pop", "shape", OldChild[1].shape.st,
                                   last'.k + 1)
           /\ Len(chain'[last'.h]) <= last'.k + 1
           /\ Len(chain'[last'.h]) = last'.k + 1 =>
                 /\ chain'[last'.h][last'.k + 1] # OldChild[1]
                 /\ SelfAfter.tr = last'.tr
                 /\ EmptyHandle(chain'[last'.h][last'.k + 1])]_vars

C20_Witness ==
    /\ last.op = "simplify" /\ last.ret = last.k + 1
    /\ Len(last.log) >= 3
    /\ IsTapePush(last.log[1])
    /\ \E j \in 2..Len(last.log) :
          /\ IsShapePush(last.log[j - 1])
          /\ last.log[j] = Ev("pop", "shape", last.log[j - 1].s, last.k + 1)
          /\ chain[last.h][last.k + 1].shape.st = last.log[j].s

\* ------------------------------------------ RenderHandle, the pools' order
\* The pool `name` of the holder after the events i, i + 1, ... of the log
\* when every take is pop-first and LIFO: a push appends, a take removes
\* the last storage of a non-empty pool and allocates (storage number
\* `fresh`) on an empty one; ok says that the logged takes were such
RECURSIVE Replay(_, _, _, _, _)
Replay(log, i, name, pool, fresh) ==
    IF i > Len(log) THEN [ok |-> TRUE, pool |-> pool, fresh |-> fresh]
    ELSE IF log[i].pool # name THEN Replay(log, i + 1, name, pool, fresh)
    ELSE IF log[i].ev = "push"
    THEN Replay(log, i + 1, name, Append(pool, log[i].s), fresh)
    ELSE IF Len(pool) > 0
    THEN IF log[i].ev = "pop" /\ log[i].s = pool[Len(pool)]
         THEN Replay(log, i + 1, name, SubSeq(pool, 1, Len(pool) - 1), fresh)
         ELSE [ok |-> FALSE, pool |-> pool, fresh |-> fresh]
    ELSE IF log[i].ev = "alloc" /\ log[i].s = fresh
         THEN Replay(log, i + 1, name, pool, fresh + 1)
         ELSE [ok |-> FALSE, pool |-> pool, fresh |-> fresh]

Allocs(log) == Cardinality({i \in 1..Len(log) : log[i].ev = "alloc"})

\* C21: a tape getter or a simplify call takes its storage pop-first and
\* LIFO: it takes the storage pushed last onto the pool (the pushes of the
\* call itself included) whenever that pool is not empty, allocates a fresh
\* storage only when the pool is empty, and the pools and the count of
\* storages ever allocated after the call are what that discipline leaves
C21_PopFirstLifo ==
    [][last'.op \in Getters \cup {"simplify"} =>
        LET t == Replay(last'.log, 1, "tape", tp[last'.h], nextId)
            u == Replay(last'.log, 1, "shape", sp[last'.h], t.fresh)
        IN  /\ t.ok /\ tp'[last'.h] = t.pool
            /\ u.ok /\ sp'[last'.h] = u.pool
            /\ nextId' = nextId + Allocs(last'.log)
            /\ nextId' = u.fresh]_vars

\* A getter has taken the storage pushed last from a tape pool that held
\* another storage as well
C21_Witness ==
    /\ last.op \in Getters
    /\ Len(last.log) = 1 /\ last.log[1].ev = "pop"
    /\ Len(tp[last.h]) > 0
    /\ last.log[1].s # tp[last.h][Len(tp[last.h])]

\* ---------------------------------------------- the renderer's properties
AllMerged == merged = Workers(threads)

\* The image of a render with one thread: the single worker renders the
\* root tiles u, u + 1, ... in order and the orchestrator composites them
RECURSIVE OneThread2D(_, _, _, _)
OneThread2D(sc, md, u, img) ==
    IF u \notin Units(md) THEN img
    ELSE OneThread2D(sc, md, u + 1,
             Blit(md, img, u,
                 RenderTile2D(sc, md, 1, UnitX(md, u), UnitY(md, u),
                     EmptyFrame).buf))

RECURSIVE OneThread3D(_, _, _, _)
OneThread3D(sc, md, u, H) ==
    IF u \notin Units(md) THEN H
    ELSE OneThread3D(sc, md, u + 1,
             RenderTile3D(sc, 1, UnitX(md, u), UnitY(md, u), UnitZ(md, u),
                 H))

OneThread(sc, md) ==
    IF md \in Modes2D THEN OneThread2D(sc, md, 0, EmptyImage)
    ELSE MergeMax(EmptyImage, OneThread3D(sc, md, 0, EmptyImage))

\* C17: a finished render with any number of workers, merged in any order,
\* has produced the image that the render of the same scene in the same
\* mode with one thread produces (2D bit, SDF and debug, 3D heightmap)
C17_ThreadCountIndependent ==
    AllMerged => image = OneThread(scene, mode)

\* A finished heightmap render with several workers two of which have
\* found different depths, both in front of the sentinel, for one pixel
C17_Witness ==
    /\ AllMerged /\ threads > 1 /\ mode = "heightmap"
    /\ \E v, w \in Workers(threads) : \E p \in Pixels :
           /\ out[v].hmap[p] > 0
           /\ out[w].hmap[p] > out[v].hmap[p]

\* The workers that own root tile u
Owners(u) == {w \in Workers(threads) : u \in Owns(mode, w, threads)}

Rendered ==
    UNION {{out[w].tiles[i] : i \in 1..Len(out[w].tiles)} : w \in DOMAIN out}

\* The interval of a logged tile decides its sign
Decided(e) ==
    LET I == Interval(scene, e.x, e.y, RenderTiles[e.k])
    IN  I.lo > 0 \/ I.hi <= 0

\* The visits of the log below the tile of visit e
Below(log, e) ==
    {i \in 1..Len(log) :
        /\ log[i].k > e.k
        /\ InTile(e.x, e.y, RenderTiles[e.k], log[i].x, log[i].y)}

LastBefore(i, ev) ==
    LET S == {j \in 1..(i - 1) : vlog[j].ev = ev}
    IN  IF S = {} THEN 0 ELSE CHOOSE j \in S : \A m \in S : m <= j

Oks == {i \in 1..Len(vlog) : vlog[i].ev = "ok"}

\* C23: every Ok render result is sent after a successful script context
\* and a RenderSettings have been received, and is rendered from the script
\* context and the RenderSettings received last before it
C23_RenderUsesLatest ==
    \A i \in Oks :
        LET a == LastBefore(i, "recv_ctx")
            b == LastBefore(i, "recv_cfg")
        IN  /\ a > 0 /\ b > 0
            /\ vlog[i].ctx = vlog[a].ctx
            /\ vlog[i].cfg = vlog[b].cfg

\* A second render, after a further script context and further settings
\* have been received, has used both
C23_Witness ==
    \E i, j \in Oks :
        /\ i < j
        /\ vlog[i].ctx = 1 /\ vlog[i].cfg = 1
        /\ vlog[j].ctx = 2 /\ vlog[j].cfg = 2

\* No script context and no settings are on their way to the thread
NoneArriving ==
    /\ cfgq = <<>>
    /\ \A i \in 1..Len(rxq) : rxq[i] = ErrMsg

\* The thread holds script context c and settings g and nothing newer is
\* arriving
Holds(c, g) == script_ctx = c /\ config = g /\ NoneArriving

\* The last Ok result sent was rendered from c and g
LastOkIs(c, g) ==
    /\ Oks # {}
    /\ LET i == CHOOSE i \in Oks : \A j \in Oks : j <= i
       IN  vlog[i].ctx = c /\ vlog[i].cfg = g

Received(i) == vlog[i].ev \in {"recv_ctx", "recv_cfg"}

\* Between two Ok results a script context or settings have been received,
\* and the flag is clear at the head of the loop when nothing has been
\* received since the last Ok result
NoRedundantRender ==
    /\ \A i, j \in Oks : i < j => \E m \in (i + 1)..(j - 1) : Received(m)
    /\ \A i \in Oks :
          (pc \in {"select", "check"}
              /\ \A m \in (i + 1)..Len(vlog) : ~Received(m)) => ~changed

\* C24: once the thread holds a script context and settings and nothing
\* newer arrives, an Ok result rendered from them is eventually sent and the
\* flag is cleared; and no render is performed again before a new script
\* context or new settings have been received
C24_RenderThenIdle ==
    /\ []NoRedundantRender
    /\ \A c \in 1..MaxScripts : \A g \in 1..MaxSettings :
          Holds(c, g) ~> (~Holds(c, g) \/ (LastOkIs(c, g) /\ ~changed))

\* The thread has rendered the latest script context and settings, has
\* cleared the flag, has then forwarded an error and timed out, and is
\* back at the head of the loop without another render
C24_Witness ==
    /\ pc = "select" /\ ~changed
    /\ script_ctx # None /\ config = 2 /\ rxq = <<>>
    /\ Holds(script_ctx, config) /\ LastOkIs(script_ctx, config)
    /\ Len(vlog) > 2
    /\ vlog[Len(vlog)].ev = "err"
    /\ vlog[Len(vlog) - 2].ev = "wake"

\* Every Ok result in the record is followed at once by a wake message, the
\* last one excepted while the thread stands between the two sends; every
\* wake message follows an Ok result at once
WakePairs ==
    \A i \in 1..Len(vlog) :
        /\ vlog[i].ev = "ok" =>
              IF i < Len(vlog) THEN vlog[i + 1].ev = "wake"
              ELSE pc \in {"clear", "wake"}
        /\ vlog[i].ev = "wake" => i > 1 /\ vlog[i - 1].ev = "ok"

LastSent(ev) == vlog # <<>> /\ vlog[Len(vlog)].ev = ev

\* C25: the thread sends one wake message after each Ok result, before it
\* receives or sends anything else, and sends no wake message otherwise
\* (none after a forwarded error); the wake message of an Ok result does
\* get sent
C25_WakeOncePerOk ==
    /\ []WakePairs
    /\ LastSent("ok") ~> LastSent("wake")

\* Two Ok results, each with its wake message, and between them a forwarded
\* error without one
C25_Witness ==
    \E i, j \in Oks : \E e \in (i + 2)..(j - 1) :
        /\ vlog[i + 1].ev = "wake"
        /\ vlog[e].ev = "err"
        /\ j < Len(vlog) /\ vlog[j + 1].ev = "wake"

====
